---- MODULE Spec2Model ----
(***************************************************************************)
(* Workout tracking service (src/new-workout-plan-api.py) and the guided   *)
(* workout flow that drives it (src/new-workout-plan-ui.py).               *)
(*                                                                         *)
(* The service keeps one piece of state, the dict workout_history; every   *)
(* handler is modelled as one atomic action (requests are served one at a  *)
(* time).  request/response hold the last request served and its answer.   *)
(* Time is a clock of whole seconds; strftime and isoformat are modelled   *)
(* as the field sequences they print.                                      *)
(***************************************************************************)
EXTENDS Integers, Sequences, FiniteSets, TLC

VARIABLES
    now,                 \* datetime.now(), in seconds since the model's epoch
    workout_history,     \* api: the dict, as its values in key order
    request,             \* the last request the service handled
    response,            \* the answer to it
    started,             \* history variable: session ids start-workout returned
    stores,              \* history variable: session id of each write to workout_history
    n_complete,          \* history variable: number of complete-workout requests served
    current_exercise,    \* ui: st.session_state.current_exercise
    workout_in_progress, \* ui: st.session_state.workout_in_progress
    completed_exercises, \* ui: st.session_state.completed_exercises
    timer_running,       \* ui: st.session_state.timer_running
    session_id,          \* ui: st.session_state.session_id
    workout_plan         \* ui: st.session_state.workout_plan

apiVars == <<workout_history, request, response, started, stores, n_complete>>
uiVars == <<current_exercise, workout_in_progress, completed_exercises,
            timer_running, session_id, workout_plan>>
vars == <<now, apiVars, uiVars>>

(***************************************************************************)
(* Bounds of the model.                                                    *)
(***************************************************************************)
MaxClock == 2          \* the clock runs from 0 to MaxClock seconds
SecondsPerDay == 2     \* seconds in a model day (scaled down from 86400)
MaxSelections == 3     \* longest list of ExerciseSelections a client posts
MaxCompletions == 2    \* longest list of WorkoutCompletions a client posts
MaxCompletes == 3      \* complete-workout requests served in one run of Spec
MaxAggregated == 2     \* complete-workout requests served in one run of SpecAggregate
MaxSets == 2           \* most sets the form plans for one exercise (the widget allows 10)
MaxWorkouts == 2       \* guided workouts started in one run of SpecUI
MaxTape == 3           \* longest period of the random source in SpecPlan
RandomLevels == 6      \* values one draw of the random source can take

(***************************************************************************)
(* Data: the exercise catalog and the values clients send.                 *)
(***************************************************************************)
PushUp == "push-up-001"
Squat == "squat-001"
NotInCatalog == "lunge-001"

\* The description and equipment_needed fields are carried by no operation
\* modelled here and are left out.
EXERCISE_DATABASE ==
    [id \in {PushUp, Squat} |->
        IF id = PushUp
        THEN [id |-> PushUp, name |-> "Push-ups",
              muscle_groups |-> <<"Chest", "Shoulders", "Triceps">>,
              difficulty_level |-> "beginner", recommended_rest |-> 60]
        ELSE [id |-> Squat, name |-> "Bodyweight Squats",
              muscle_groups |-> <<"Legs">>,
              difficulty_level |-> "beginner", recommended_rest |-> 60]]

MuscleGroup == {"Chest", "Back", "Shoulders", "Biceps", "Triceps", "Legs", "Core"}

ExerciseSelection(id, sets, reps, rest_time) ==
    [exercise_id |-> id, sets |-> sets, reps |-> reps, rest_time |-> rest_time]

WorkoutCompletion(id, sets, reps, time, rating) ==
    [exercise_id |-> id, completed_sets |-> sets, actual_reps |-> <<reps>>,
     time_taken |-> time, difficulty_rating |-> rating]

SeqsUpTo(S, n) == UNION {[1..k -> S] : k \in 0..n}

\* Request bodies an API client posts: well-typed, otherwise unconstrained
\* (pydantic checks types only).
ClientSelections ==
    SeqsUpTo({ExerciseSelection(id, 3, 10, 60) : id \in {PushUp, Squat, NotInCatalog}},
             MaxSelections)

ClientCompletions ==
    SeqsUpTo({WorkoutCompletion(PushUp, 1, 10, 30, 4),
              WorkoutCompletion(PushUp, 1, 10, 45, 2),
              WorkoutCompletion(Squat, 1, 10, 45, 7)}, MaxCompletions)

(***************************************************************************)
(* Time stamps.                                                            *)
(***************************************************************************)
\* datetime.isoformat(): the date fields, then the time-of-day fields
Isoformat(t) == <<t \div SecondsPerDay, t % SecondsPerDay>>

\* f"workout_{now.strftime('%Y%m%d_%H%M%S')}": resolution of one second
SessionIdAt(t) == <<"workout", t \div SecondsPerDay, t % SecondsPerDay>>

\* a path parameter no start-workout call produced
ForeignSessionId == <<"manual", 0, 0>>

\* str.startswith
StartsWith(s, prefix) ==
    /\ Len(prefix) <= Len(s)
    /\ SubSeq(s, 1, Len(prefix)) = prefix

\* {date} path parameters a client asks for: a day, or a day and a second
ClientDates ==
    {<<d>> : d \in 0..(MaxClock \div SecondsPerDay + 1)}
        \cup {Isoformat(t) : t \in 0..MaxClock}

(***************************************************************************)
(* Responses.  kind is the JSON shape of the body.                         *)
(***************************************************************************)
Response(status, kind, body) == [status |-> status, kind |-> kind, body |-> body]

Ok(kind, body) == Response(200, kind, body)

\* a changed status code for the unknown-exercise rejection
ExerciseNotFound404(id) ==
    Response(404, "error", [detail |-> <<"Exercise not found", id>>])

\* raise HTTPException(status_code=400, detail=f"Exercise {id} not found")
ExerciseNotFound(id) ==
    Response(400, "error", [detail |-> <<"Exercise not found", id>>])

\* raise HTTPException(status_code=400, detail="No exercises completed")
NoExercisesCompleted == Response(400, "error", [detail |-> "No exercises completed"])

\* an exception the handler does not catch: the framework answers 500
InternalServerError == Response(500, "error", [detail |-> "Internal Server Error"])

NoWorkoutsFound == [message |-> "No workouts found for this date"]

(***************************************************************************)
(* validate_workout                                                        *)
(***************************************************************************)
\* the over-training test with the threshold off by one
TrainedTooMuchFromTwo(count) == count >= 2

\* if muscle_group_count[muscle] > 2
TrainedTooMuch(count) == count > 2

\* muscle_group_count.get(muscle, 0)
DictGet(dict, key, default) == IF key \in DOMAIN dict THEN dict[key] ELSE default

\* dict[key] = value
DictPut(dict, key, value) ==
    [k \in DOMAIN dict \cup {key} |-> IF k = key THEN value ELSE dict[k]]

\* the inner loop: for muscle in exercise["muscle_groups"], from position j
RECURSIVE CountMuscles(_, _, _)
CountMuscles(muscles, j, acc) ==
    IF j > Len(muscles) THEN acc
    ELSE LET muscle == muscles[j]
             count == DictGet(acc.muscle_group_count, muscle, 0) + 1
             counted == DictPut(acc.muscle_group_count, muscle, count)
         IN CountMuscles(muscles, j + 1,
                [muscle_group_count |-> counted,
                 warnings |-> IF TrainedTooMuch(count)
                              THEN Append(acc.warnings,
                                          [muscle |-> muscle, times |-> count])
                              ELSE acc.warnings])

\* the outer loop: for selection in selections, from position i
RECURSIVE ValidateFrom(_, _, _)
ValidateFrom(selections, i, acc) ==
    IF i > Len(selections)
    THEN Ok("validation",
            [is_valid |-> Len(acc.warnings) = 0,
             warnings |-> acc.warnings,
             muscle_group_distribution |-> acc.muscle_group_count])
    ELSE IF selections[i].exercise_id \notin DOMAIN EXERCISE_DATABASE
    THEN ExerciseNotFound(selections[i].exercise_id)
    ELSE ValidateFrom(selections, i + 1,
            CountMuscles(EXERCISE_DATABASE[selections[i].exercise_id].muscle_groups,
                         1, acc))

validate_workout(selections) ==
    ValidateFrom(selections, 1, [muscle_group_count |-> <<>>, warnings |-> <<>>])

(***************************************************************************)
(* start_workout                                                           *)
(***************************************************************************)
\* the validation loop: the first selection whose id is not in the catalog
RECURSIVE FirstMissing(_, _)
FirstMissing(exercises, i) ==
    IF i > Len(exercises) THEN 0
    ELSE IF exercises[i].exercise_id \notin DOMAIN EXERCISE_DATABASE THEN i
    ELSE FirstMissing(exercises, i + 1)

\* {**EXERCISE_DATABASE[ex.exercise_id], "planned_sets": ..., ...}
PlanEntry(ex) ==
    LET e == EXERCISE_DATABASE[ex.exercise_id]
    IN [id |-> e.id, name |-> e.name, muscle_groups |-> e.muscle_groups,
        difficulty_level |-> e.difficulty_level,
        recommended_rest |-> e.recommended_rest,
        planned_sets |-> ex.sets, planned_reps |-> ex.reps,
        rest_time |-> ex.rest_time]

start_workout(workout, t) ==
    LET missing == FirstMissing(workout.exercises, 1)
    IN IF missing # 0
       THEN ExerciseNotFound(workout.exercises[missing].exercise_id)
       ELSE Ok("plan",
               [session_id |-> SessionIdAt(t),
                started_at |-> Isoformat(t),
                exercise_plan |-> [i \in 1..Len(workout.exercises) |->
                                      PlanEntry(workout.exercises[i])]])

(***************************************************************************)
(* complete_workout                                                        *)
(***************************************************************************)
RECURSIVE GCD(_, _)
GCD(a, b) == IF b = 0 THEN a ELSE GCD(b, a % b)

\* a float holding the quotient of two naturals, as the fraction in lowest terms
Float(n, d) == LET g == GCD(n, d) IN [num |-> n \div g, den |-> d \div g]

\* integer division in place of true division
FloorDiv(n, d) == Float(n \div d, 1)

\* n / d on ints
TrueDiv(n, d) == Float(n, d)

\* sum(f(ex) for ex in completion)
RECURSIVE SumOver(_, _, _)
SumOver(completion, field, i) ==
    IF i > Len(completion) THEN 0
    ELSE completion[i][field] + SumOver(completion, field, i + 1)

\* an emptiness test that lets every list through
NeverEmpty(completion) == FALSE

\* if not completion
IsEmpty(completion) == Len(completion) = 0

\* WorkoutHistory(...), lines 144-153
HistoryEntry(sid, completion, t) ==
    [session_id |-> sid,
     date |-> Isoformat(t),
     exercises_completed |-> completion,
     total_time |-> SumOver(completion, "time_taken", 1),
     overall_difficulty |->
         TrueDiv(SumOver(completion, "difficulty_rating", 1), Len(completion))]

\* the position of key in the dict, 0 when absent
KeyIndex(history, sid) ==
    IF \E i \in 1..Len(history) : history[i].session_id = sid
    THEN CHOOSE i \in 1..Len(history) : history[i].session_id = sid
    ELSE 0

\* workout_history[session_id] = entry: a new key goes last, an existing key
\* keeps its place and gets the new value
DictStore(history, sid, entry) ==
    IF KeyIndex(history, sid) = 0
    THEN Append(history, entry)
    ELSE [history EXCEPT ![KeyIndex(history, sid)] = entry]

\* the outcome of the handler: "raise400", "raise500" (ZeroDivisionError) or "ok"
CompleteOutcome(completion) ==
    IF IsEmpty(completion) THEN "raise400"
    ELSE IF Len(completion) = 0 THEN "raise500"
    ELSE "ok"

complete_workout(sid, completion, t) ==
    CASE CompleteOutcome(completion) = "raise400" -> NoExercisesCompleted
      [] CompleteOutcome(completion) = "raise500" -> InternalServerError
      [] OTHER -> Ok("history_entry", HistoryEntry(sid, completion, t))

(***************************************************************************)
(* get_workout_history, export_workout_history                             *)
(***************************************************************************)
\* [session for session in workout_history.values() if session["date"].startswith(date)]
RECURSIVE DailyHistory(_, _, _)
DailyHistory(history, date, i) ==
    IF i > Len(history) THEN <<>>
    ELSE IF StartsWith(history[i].date, date)
    THEN <<history[i]>> \o DailyHistory(history, date, i + 1)
    ELSE DailyHistory(history, date, i + 1)

get_workout_history(history, date) ==
    LET daily_history == DailyHistory(history, date, 1)
    IN IF Len(daily_history) = 0
       THEN Ok("message", NoWorkoutsFound)
       ELSE Ok("list", daily_history)

\* "message" in daily_history: a key of the dict, or an element of the list
\* (the list holds dicts, never the string)
HasMessage(answer) == answer.kind = "message"

export_workout_history(history, date) ==
    LET daily_history == get_workout_history(history, date)
    IN IF HasMessage(daily_history)
       THEN daily_history
       ELSE Ok("export",
               [date |-> date,
                total_sessions |-> Len(daily_history.body),
                sessions |-> daily_history.body])

(***************************************************************************)
(* State after start-up: module level of both programs.                    *)
(***************************************************************************)
Init ==
    /\ now = 0
    /\ workout_history = <<>>
    /\ request = [op |-> "none"]
    /\ response = Response(0, "none", <<>>)
    /\ started = {}
    /\ stores = <<>>
    /\ n_complete = 0
    /\ current_exercise = 0
    /\ workout_in_progress = FALSE
    /\ completed_exercises = <<>>
    /\ timer_running = FALSE
    /\ session_id = <<>>
    /\ workout_plan = <<>>

\* the wall clock advances
Tick ==
    /\ now < MaxClock
    /\ now' = now + 1
    /\ UNCHANGED <<apiVars, uiVars>>

(***************************************************************************)
(* The service's handlers, each serving one request.                       *)
(***************************************************************************)
\* what serving a request does to the service's state: the answer, and for
\* start-workout and complete-workout the id handed out and the dict write
Serve(req, answer) ==
    /\ request' = req
    /\ response' = answer
    /\ started' = IF req.op = "start" /\ answer.status = 200
                  THEN started \cup {answer.body.session_id}
                  ELSE started
    /\ IF req.op = "complete"
       THEN /\ n_complete' = n_complete + 1
            /\ IF answer.status = 200
               THEN /\ workout_history' =
                           DictStore(workout_history, req.session_id, answer.body)
                    /\ stores' = Append(stores, req.session_id)
               ELSE UNCHANGED <<workout_history, stores>>
       ELSE UNCHANGED <<workout_history, stores, n_complete>>

Answer(req) ==
    CASE req.op = "validate" -> validate_workout(req.selections)
      [] req.op = "start" -> start_workout(req.workout, now)
      [] req.op = "complete" -> complete_workout(req.session_id, req.completion, now)
      [] req.op = "history" -> get_workout_history(workout_history, req.date)
      [] req.op = "export" -> export_workout_history(workout_history, req.date)

ValidateWorkout(selections) ==
    /\ Serve([op |-> "validate", selections |-> selections],
             Answer([op |-> "validate", selections |-> selections]))
    /\ UNCHANGED <<now, uiVars>>

StartWorkout(exercises) ==
    LET req == [op |-> "start",
                workout |-> [date |-> Isoformat(now), exercises |-> exercises]]
    IN /\ Serve(req, Answer(req))
       /\ UNCHANGED <<now, uiVars>>

CompleteWorkout(sid, completion) ==
    LET req == [op |-> "complete", session_id |-> sid, completion |-> completion]
    IN /\ Serve(req, Answer(req))
       /\ UNCHANGED <<now, uiVars>>

GetWorkoutHistory(date) ==
    /\ Serve([op |-> "history", date |-> date], Answer([op |-> "history", date |-> date]))
    /\ UNCHANGED <<now, uiVars>>

ExportWorkoutHistory(date) ==
    /\ Serve([op |-> "export", date |-> date], Answer([op |-> "export", date |-> date]))
    /\ UNCHANGED <<now, uiVars>>

\* the session ids a client completes: those start-workout handed out, and
\* one it never handed out
ClientSessionIds == started \cup {ForeignSessionId}

(***************************************************************************)
(* Spec: the life of sessions and of the history store.  A client starts,  *)
(* completes and queries in any order; the request bodies are few.         *)
(***************************************************************************)
SessionSelections ==
    {<<ExerciseSelection(PushUp, 3, 10, 60)>>, <<ExerciseSelection(NotInCatalog, 3, 10, 60)>>}

SessionCompletions ==
    SeqsUpTo({WorkoutCompletion(PushUp, 3, 10, 30, 4)}, MaxCompletions)

Next ==
    \/ Tick
    \/ \E exercises \in SessionSelections : StartWorkout(exercises)
    \/ \E sid \in ClientSessionIds, completion \in SessionCompletions :
           n_complete < MaxCompletes /\ CompleteWorkout(sid, completion)
    \/ \E date \in ClientDates : GetWorkoutHistory(date)
    \/ \E date \in ClientDates : ExportWorkoutHistory(date)

Spec == Init /\ [][Next]_vars

(***************************************************************************)
(* SpecValidate: validate-workout and start-workout on every list of       *)
(* selections up to MaxSelections.                                         *)
(***************************************************************************)
NextValidate ==
    \/ Tick
    \/ \E selections \in ClientSelections : ValidateWorkout(selections)
    \/ \E exercises \in ClientSelections : StartWorkout(exercises)

SpecValidate == Init /\ [][NextValidate]_vars

(***************************************************************************)
(* SpecAggregate: complete-workout on every list of completions up to      *)
(* MaxCompletions, for the session started at the epoch and for a session  *)
(* id that was never started (the clock stands still).                     *)
(***************************************************************************)
NextAggregate ==
    \/ \E exercises \in SessionSelections : StartWorkout(exercises)
    \/ \E sid \in ClientSessionIds, completion \in ClientCompletions :
           n_complete < MaxAggregated /\ CompleteWorkout(sid, completion)

SpecAggregate == Init /\ [][NextAggregate]_vars

(***************************************************************************)
(* The guided workout flow: main() of the UI script, one action per run    *)
(* of the script that changes st.session_state.                            *)
(***************************************************************************)
\* the form: for each catalog exercise whose box is ticked, in catalog
\* order, the sets chosen and the default 10 reps
FormRow(id, sets) ==
    ExerciseSelection(id, sets, 10, EXERCISE_DATABASE[id].recommended_rest)

FormSelections ==
    {<<>>}
        \cup {<<FormRow(id, sets)>> : id \in {PushUp, Squat}, sets \in 1..MaxSets}
        \cup {<<FormRow(PushUp, s1), FormRow(Squat, s2)>> : s1 \in 1..MaxSets, s2 \in 1..MaxSets}

\* int(start_timer(duration)): the loop ends once duration has elapsed, at a
\* sleep boundary
TimeTaken(duration) == {duration, duration + 1}

\* "Validate & Start Workout" pressed with the boxes of selected_exercises ticked
SubmitForm(selected_exercises) ==
    /\ ~workout_in_progress
    /\ IF Len(selected_exercises) = 0
       THEN UNCHANGED vars            \* st.error("Please select at least one exercise")
       ELSE LET validation == validate_workout(selected_exercises)
                req == [op |-> "start",
                        workout |-> [date |-> Isoformat(now),
                                     exercises |-> selected_exercises]]
                answer == Answer(req)
            IN /\ validation.status = 200   \* validation["warnings"] is read
               /\ Serve(req, answer)
               /\ IF answer.status = 200
                  THEN /\ session_id' = answer.body.session_id
                       /\ workout_plan' = answer.body.exercise_plan
                       /\ workout_in_progress' = TRUE
                       /\ current_exercise' = 0
                  ELSE UNCHANGED <<session_id, workout_plan, workout_in_progress,
                                   current_exercise>>
               /\ UNCHANGED <<now, completed_exercises, timer_running>>

\* "Start Set" pressed: the set is timed and recorded, and the flow advances.
\* The complete-workout request of the last set is answered by the service
\* (served) or fails with a status other than 200.
StartSet(time_taken, served) ==
    /\ workout_in_progress
    /\ current_exercise < Len(workout_plan)    \* workout_plan[current_exercise]
    /\ ~timer_running
    /\ LET exercise == workout_plan[current_exercise + 1]
           actual_reps == exercise.planned_reps    \* the widget's default
           difficulty == 3                         \* the slider's default
           recorded == Append(completed_exercises,
                              WorkoutCompletion(exercise.id,
                                                Len(completed_exercises) + 1,
                                                actual_reps, time_taken, difficulty))
           req == [op |-> "complete", session_id |-> session_id,
                   completion |-> recorded]
           answer == IF served THEN Answer(req) ELSE InternalServerError
       IN /\ time_taken \in TimeTaken(exercise.rest_time)
          /\ timer_running' = FALSE
          /\ IF Len(recorded) >= exercise.planned_sets
             THEN /\ current_exercise' = current_exercise + 1
                  /\ IF current_exercise + 1 >= Len(workout_plan)
                     THEN /\ Serve(req, answer)
                          /\ IF answer.status = 200
                             THEN /\ workout_in_progress' = FALSE
                                  /\ completed_exercises' = <<>>
                             ELSE /\ workout_in_progress' = workout_in_progress
                                  /\ completed_exercises' = recorded
                     ELSE /\ completed_exercises' = recorded
                          /\ UNCHANGED <<apiVars, workout_in_progress>>
             ELSE /\ completed_exercises' = recorded
                  /\ UNCHANGED <<apiVars, workout_in_progress, current_exercise>>
          /\ UNCHANGED <<now, session_id, workout_plan>>

\* what the timer can report for some exercise of the catalog
SetTimes ==
    UNION {TimeTaken(EXERCISE_DATABASE[id].recommended_rest) : id \in DOMAIN EXERCISE_DATABASE}

\* SpecUI: one user at the form and the guided flow.  Time passes by Tick
\* steps between the runs of the script.
NextUI ==
    \/ Tick
    \/ \E selected \in FormSelections :
           n_complete < MaxWorkouts /\ SubmitForm(selected)
    \/ \E time_taken \in SetTimes, served \in BOOLEAN : StartSet(time_taken, served)

SpecUI == Init /\ [][NextUI]_vars

(***************************************************************************)
(* The plan generator (src/main.py): generate_weekly_plan, a handler with   *)
(* no state.  Its random module is a source of draws: a tape of raw values  *)
(* in 0..RandomLevels-1 that repeats with a period of at most MaxTape, read *)
(* one value per call of the generator's primitive.                         *)
(***************************************************************************)
Ex(name, sets, reps, rest_seconds) ==
    [name |-> name, sets |-> sets, reps |-> reps, rest_seconds |-> rest_seconds]

EXERCISE_LIBRARY ==
    [level \in {"beginner", "advanced"} |->
      IF level = "beginner"
      THEN [focus \in {"Upper Body", "Lower Body", "Core"} |->
              CASE focus = "Upper Body" ->
                     <<Ex("Push-ups", 3, "8-10", 60), Ex("Band Rows", 3, "12", 60),
                       Ex("Shoulder Press", 3, "10", 60)>>
                [] focus = "Lower Body" ->
                     <<Ex("Bodyweight Squats", 3, "12-15", 60),
                       Ex("Lunges", 3, "10 each leg", 60),
                       Ex("Glute Bridges", 3, "15", 45)>>
                [] OTHER ->
                     <<Ex("Plank", 3, "30 seconds", 45), Ex("Crunches", 3, "15", 45),
                       Ex("Bird Dogs", 3, "10 each side", 45)>>]
      ELSE [focus \in {"Upper Body", "Lower Body", "Core"} |->
              CASE focus = "Upper Body" ->
                     <<Ex("Diamond Push-ups", 4, "15-20", 45), Ex("Pull-ups", 4, "8-10", 60),
                       Ex("Dips", 4, "12-15", 60)>>
                [] focus = "Lower Body" ->
                     <<Ex("Jump Squats", 4, "20", 45),
                       Ex("Bulgarian Split Squats", 4, "12 each leg", 45),
                       Ex("Box Jumps", 4, "15", 60)>>
                [] OTHER ->
                     <<Ex("Hanging Leg Raises", 4, "15", 45),
                       Ex("Russian Twists", 4, "20 each side", 45),
                       Ex("Ab Wheel Rollouts", 4, "12", 60)>>]]

\* the description field is text only and is left out
MealOf(name, calories, protein, carbs, fats) ==
    [name |-> name, calories |-> calories, protein |-> protein, carbs |-> carbs,
     fats |-> fats]

MEAL_LIBRARY ==
    [level \in {"beginner", "advanced"} |->
      IF level = "beginner"
      THEN [meal_type \in {"Breakfast", "Lunch", "Dinner"} |->
              CASE meal_type = "Breakfast" ->
                     <<MealOf("Oatmeal with Banana and Honey", 350, 12, 65, 6),
                       MealOf("Greek Yogurt Parfait", 300, 20, 45, 8)>>
                [] meal_type = "Lunch" ->
                     <<MealOf("Turkey Sandwich", 400, 25, 45, 12),
                       MealOf("Chicken Caesar Salad", 350, 30, 15, 20)>>
                [] OTHER ->
                     <<MealOf("Grilled Chicken with Rice", 450, 35, 55, 10),
                       MealOf("Baked Salmon with Sweet Potato", 500, 40, 45, 15)>>]
      ELSE [meal_type \in {"Breakfast", "Lunch", "Dinner"} |->
              CASE meal_type = "Breakfast" ->
                     <<MealOf("Protein Oatmeal", 450, 35, 65, 8),
                       MealOf("Egg White Omelet", 400, 40, 20, 15)>>
                [] meal_type = "Lunch" ->
                     <<MealOf("Chicken Rice Bowl", 550, 45, 65, 12),
                       MealOf("Tuna Pasta Salad", 500, 40, 60, 15)>>
                [] OTHER ->
                     <<MealOf("Steak with Sweet Potato", 650, 50, 55, 25),
                       MealOf("Turkey Meatballs with Quinoa", 600, 45, 65, 20)>>]]

\* the random source: the value of draw number k (from 0) of a tape
Draw(tape, k) == tape[(k % Len(tape)) + 1]

\* random's primitive: an index below n, from one draw
Randbelow(tape, k, n) == (Draw(tape, k) * n) \div RandomLevels

\* random.randint(a, b), reading draw k
Randint(tape, k, a, b) == a + Randbelow(tape, k, b - a + 1)

\* random.choice(seq), reading draw k
Choice(tape, k, seq) == seq[Randbelow(tape, k, Len(seq)) + 1]

\* a sample that does not take the chosen element out of the pool
RECURSIVE SampleWithReplacement(_, _, _, _, _)
SampleWithReplacement(tape, k, pool, n, count) ==
    IF count = 0 THEN <<>>
    ELSE <<pool[Randbelow(tape, k, n) + 1]>>
             \o SampleWithReplacement(tape, k + 1, pool, n, count - 1)

\* random.sample(population, count) for a small population, reading draws
\* from k on: pick pool[j] with j below the n elements left, then move the
\* last of them to place j
RECURSIVE SampleFrom(_, _, _, _, _)
SampleFrom(tape, k, pool, n, count) ==
    IF count = 0 THEN <<>>
    ELSE LET j == Randbelow(tape, k, n) + 1
         IN <<pool[j]>>
                \o SampleFrom(tape, k + 1, [pool EXCEPT ![j] = pool[n]], n - 1, count - 1)

Min(a, b) == IF a <= b THEN a ELSE b

\* dates are field sequences <<year, month, day>> of the year 2024
DaysInMonth == <<31, 29, 31, 30, 31, 30, 31, 31, 30, 31, 30, 31>>

RECURSIVE DaysBefore(_)
DaysBefore(month) == IF month = 1 THEN 0 ELSE DaysBefore(month - 1) + DaysInMonth[month - 1]

\* datetime.strptime(start_date, "%Y-%m-%d"): the day of the year from 0,
\* or -1 for ValueError
Strptime(start_date) ==
    IF /\ Len(start_date) = 3
       /\ start_date[2] \in 1..12
       /\ start_date[3] \in 1..DaysInMonth[start_date[2]]
    THEN DaysBefore(start_date[2]) + start_date[3] - 1
    ELSE -1

\* (start_date + timedelta(days=i)).strftime("%A"); 2024-01-01 is a Monday
DayName(start, i) ==
    <<"Monday", "Tuesday", "Wednesday", "Thursday", "Friday", "Saturday",
      "Sunday">>[((start + i) % 7) + 1]

focus_areas == <<"Upper Body", "Lower Body", "Core">>

\* the loop of lines 142-161 from day i on, reading draws from k on
RECURSIVE WorkoutDays(_, _, _, _, _)
WorkoutDays(level, duration, start, tape, i) ==
    IF i >= 5 THEN <<>>
    ELSE LET focus_area == focus_areas[(i % Len(focus_areas)) + 1]
             exercises == EXERCISE_LIBRARY[level][focus_area]
             num_exercises == IF duration = 30 THEN 3 ELSE 5
             count == Min(num_exercises, Len(exercises))
             k == i * (count + 1)
             selected_exercises == SampleFrom(tape, k, exercises, Len(exercises), count)
             calories_burn == IF duration = 30
                              THEN Randint(tape, k + count, 200, 300)
                              ELSE Randint(tape, k + count, 400, 600)
         IN <<[day |-> DayName(start, i),
               focus_area |-> focus_area,
               exercises |-> selected_exercises,
               calories_burn_estimate |-> calories_burn]>>
                \o WorkoutDays(level, duration, start, tape, i + 1)

meal_types == <<"Breakfast", "Lunch", "Dinner">>

\* the inner loop of lines 173-177 from meal type m on: the meals, and
\* total_calories added up as they are chosen
RECURSIVE DailyMeals(_, _, _, _)
DailyMeals(level, tape, k, m) ==
    IF m > Len(meal_types) THEN [daily_meals |-> <<>>, total_calories |-> 0]
    ELSE LET selected_meal == Choice(tape, k, MEAL_LIBRARY[level][meal_types[m]])
             rest == DailyMeals(level, tape, k + 1, m + 1)
         IN [daily_meals |-> <<selected_meal>> \o rest.daily_meals,
             total_calories |-> selected_meal.calories + rest.total_calories]

\* the loop of lines 165-184 from day i on; k0 draws were read before it
RECURSIVE DietDays(_, _, _, _, _)
DietDays(level, start, tape, k0, i) ==
    IF i >= 7 THEN <<>>
    ELSE LET day == DailyMeals(level, tape, k0 + i * Len(meal_types), 1)
         IN <<[day |-> DayName(start, i),
               total_calories |-> day.total_calories,
               meals |-> day.daily_meals]>>
                \o DietDays(level, start, tape, k0, i + 1)

BadRequest(detail) == Response(400, "error", [detail |-> detail])

generate_weekly_plan(req, tape) ==
    IF req.fitness_level \notin {"beginner", "advanced"}
    THEN BadRequest("Invalid fitness level")
    ELSE IF req.duration_minutes \notin {30, 60}
    THEN BadRequest("Invalid duration")
    ELSE IF Strptime(req.start_date) < 0
    THEN BadRequest("Invalid date format")
    ELSE LET start == Strptime(req.start_date)
             level == req.fitness_level
             per_day == 1 + Min(IF req.duration_minutes = 30 THEN 3 ELSE 5,
                                Len(EXERCISE_LIBRARY[level]["Upper Body"]))
         IN Ok("weekly_plan",
               [workout_plan |-> WorkoutDays(level, req.duration_minutes, start, tape, 0),
                diet_plan |-> DietDays(level, start, tape, 5 * per_day, 0)])

\* the requests a client posts to generate-plan
PlanRequests ==
    [op : {"generate"},
     fitness_level : {"beginner", "intermediate", "advanced"},
     duration_minutes : {30, 45, 60},
     start_date : {<<2024, 1, 1>>, <<2024, 2, 29>>, <<2024, 2, 30>>}]

\* the random sources: every tape of period 1..MaxTape
Tapes == UNION {[1..p -> 0..(RandomLevels - 1)] : p \in 1..MaxTape}

GeneratePlan(req, tape) ==
    /\ request' = req
    /\ response' = generate_weekly_plan(req, tape)
    /\ UNCHANGED <<now, workout_history, started, stores, n_complete, uiVars>>

\* SpecPlan: generate-plan on every request, with every random source.  The
\* handler keeps no state, so a run serves one request.
NextPlan ==
    \E req \in PlanRequests, tape \in Tapes :
        request.op = "none" /\ GeneratePlan(req, tape)

SpecPlan == Init /\ [][NextPlan]_vars

(***************************************************************************)
(* Properties.                                                             *)
(***************************************************************************)
Range(seq) == {seq[i] : i \in DOMAIN seq}

\* the sum of a field over a list, counted as a set of marks
Tally(list, field) ==
    Cardinality(UNION {{i} \X (1..list[i][field]) : i \in DOMAIN list})

\* the record stored under a session id
Stored(history, sid) == history[KeyIndex(history, sid)]

\* C1: once a complete call for a session id has succeeded, a later complete
\* call for the same id does not succeed: no session id is written twice
\* (stated for the sessions start-workout returned).
C1_SecondCompleteFails ==
    \A i, j \in DOMAIN stores :
        (i < j /\ stores[i] \in started) => stores[i] # stores[j]

\* C2: the history store is append-only: a step never changes or replaces
\* the record stored under a session id that is already in the store.
C2_AppendOnly ==
    [][\A i \in DOMAIN workout_history :
          LET sid == workout_history[i].session_id
          IN /\ KeyIndex(workout_history', sid) # 0
             /\ Stored(workout_history', sid) = workout_history[i]]_vars

\* C3: complete is accepted only for a session that start-workout returned:
\* a complete call for any other id is rejected and stores no record.
C3_CompleteOnlyStarted ==
    /\ \A i \in DOMAIN workout_history : workout_history[i].session_id \in started
    /\ (request.op = "complete" /\ request.session_id \notin started)
           => response.status # 200

\* C4: a complete call with an empty completions list fails with status 400
\* ("No exercises completed") and leaves the history store as it was.
C4_EmptyCompletionRejected ==
    [][(n_complete' = n_complete + 1 /\ Len(request'.completion) = 0)
          => /\ response' = NoExercisesCompleted
             /\ response'.status = 400
             /\ workout_history' = workout_history]_vars

\* C4 witness: an empty list was rejected while the store held a record.
C4_Witness ==
    /\ request.op = "complete"
    /\ Len(request.completion) = 0
    /\ response.status = 400
    /\ Len(workout_history) > 0

\* C5: a complete call with a non-empty list succeeds; the record it returns
\* is the record stored under the session id, its total_time is the sum of
\* the time_taken values, its overall_difficulty is the sum of the ratings
\* divided by the number of completions, and its exercises_completed is the
\* list as given.  Times 30 and 45 with ratings 4 and 2 give 75 and 3.0.
C5_Aggregates ==
    (request.op = "complete" /\ Len(request.completion) > 0)
        => LET list == request.completion
               entry == response.body
           IN /\ response.status = 200
              /\ KeyIndex(workout_history, request.session_id) # 0
              /\ Stored(workout_history, request.session_id) = entry
              /\ entry.session_id = request.session_id
              /\ entry.exercises_completed = list
              /\ entry.total_time = Tally(list, "time_taken")
              /\ entry.overall_difficulty.den > 0
              /\ entry.overall_difficulty.num * Len(list)
                     = Tally(list, "difficulty_rating") * entry.overall_difficulty.den
              /\ ([i \in DOMAIN list |-> <<list[i].time_taken, list[i].difficulty_rating>>]
                      = <<(<<30, 4>>), (<<45, 2>>)>>)
                     => /\ entry.total_time = 75
                        /\ entry.overall_difficulty = [num |-> 3, den |-> 1]

\* C5 witness: the two-completion example was completed and stored.
C5_Witness ==
    /\ request.op = "complete"
    /\ Len(request.completion) = 2
    /\ request.completion[1].time_taken = 30
    /\ request.completion[2].difficulty_rating = 2
    /\ response.status = 200
    /\ response.body.total_time = 75
    /\ Len(workout_history) > 0

\* C6: every stored record has overall_difficulty in [1, 5], and a complete
\* call reporting a rating outside 1..5 is rejected.
C6_DifficultyInRange ==
    /\ \A i \in DOMAIN workout_history :
          LET d == workout_history[i].overall_difficulty
          IN d.den <= d.num /\ d.num <= 5 * d.den
    /\ (request.op = "complete"
          /\ \E i \in DOMAIN request.completion :
                request.completion[i].difficulty_rating \notin 1..5)
           => response.status # 200

\* the planned sets of an exercise in a session plan
PlannedSets(plan, id) ==
    LET i == CHOOSE k \in DOMAIN plan : plan[k].id = id IN plan[i].planned_sets

CompletedWithinPlan(list, plan) ==
    \A i \in DOMAIN list :
        list[i].completed_sets <= PlannedSets(plan, list[i].exercise_id)

\* C7: in every completion record the guided flow builds, and in the record
\* it stores for the session, completed_sets is at most the planned sets of
\* the exercise.
C7_CompletedSetsWithinPlan ==
    /\ workout_in_progress => CompletedWithinPlan(completed_exercises, workout_plan)
    /\ (~workout_in_progress /\ KeyIndex(workout_history, session_id) # 0)
           => CompletedWithinPlan(
                  Stored(workout_history, session_id).exercises_completed, workout_plan)

\* the positions of a selection list whose exercise is not in the catalog
Unknown(selections) ==
    {i \in DOMAIN selections : selections[i].exercise_id \notin DOMAIN EXERCISE_DATABASE}

\* C8: when a selection names an exercise that is not in the catalog,
\* validate-workout and start-workout both answer 400 with the error detail
\* alone: no distribution or warnings, no session id and no exercise plan.
C8_UnknownExerciseRejected ==
    /\ (request.op = "validate" /\ Unknown(request.selections) # {})
           => /\ response.status = 400
              /\ response.kind = "error"
              /\ DOMAIN response.body = {"detail"}
    /\ (request.op = "start" /\ Unknown(request.workout.exercises) # {})
           => /\ response.status = 400
              /\ response.kind = "error"
              /\ DOMAIN response.body = {"detail"}

\* C8 witness: a start whose first selection is in the catalog and whose
\* second is not was rejected.
C8_Witness ==
    /\ request.op = "start"
    /\ Len(request.workout.exercises) >= 2
    /\ Unknown(request.workout.exercises) = {2}
    /\ response.status = 400

\* how many selections target a muscle group
Targeting(selections, group) ==
    Cardinality({i \in DOMAIN selections :
        group \in Range(EXERCISE_DATABASE[selections[i].exercise_id].muscle_groups)})

\* the warnings, in order, that name a muscle group
WarningsFor(warnings, group) ==
    SelectSeq(warnings, LAMBDA w : w.muscle = group)

\* C9: for selections that all resolve, validate-workout answers 200 with a
\* distribution holding, for each targeted group, the number of selections
\* targeting it; a group with count c gets one warning for each of the
\* running counts 3..c; and is_valid is true exactly when no count exceeds 2.
C9_Validation ==
    (request.op = "validate" /\ Unknown(request.selections) = {})
        => LET selections == request.selections
               result == response.body
               count(g) == Targeting(selections, g)
           IN /\ response.status = 200
              /\ DOMAIN result.muscle_group_distribution
                     = {g \in MuscleGroup : count(g) > 0}
              /\ \A g \in DOMAIN result.muscle_group_distribution :
                     result.muscle_group_distribution[g] = count(g)
              /\ \A g \in MuscleGroup :
                     LET named == WarningsFor(result.warnings, g)
                     IN /\ Len(named) = IF count(g) > 2 THEN count(g) - 2 ELSE 0
                        /\ \A k \in DOMAIN named : named[k].times = k + 2
              /\ \A k \in DOMAIN result.warnings : result.warnings[k].muscle \in MuscleGroup
              /\ result.is_valid = (\A g \in MuscleGroup : count(g) <= 2)

\* C9 witness: three selections of push-ups were validated: Chest is counted
\* three times, warned about once, and the selection is not valid.
C9_Witness ==
    /\ request.op = "validate"
    /\ Len(request.selections) = 3
    /\ \A i \in DOMAIN request.selections : request.selections[i].exercise_id = PushUp
    /\ response.status = 200
    /\ response.body.muscle_group_distribution["Chest"] = 3
    /\ Len(response.body.warnings) = 3
    /\ ~response.body.is_valid

\* a date stamp is not later than another (both from Isoformat)
NotLater(d1, d2) == d1[1] < d2[1] \/ (d1[1] = d2[1] /\ d1[2] <= d2[2])

\* C10: a history query returns exactly the stored records whose date starts
\* with the given string, in the order in which they were inserted, and the
\* "No workouts found" message exactly when no stored record matches; the
\* export wraps the same answer.  A record's date stamp is the time it was
\* inserted, so in insertion order the date stamps never decrease.
C10_QueryByDatePrefix ==
    LET matching == {i \in DOMAIN workout_history :
                        StartsWith(workout_history[i].date, request.date)}
        Exact(list) ==
            /\ Range(list) = {workout_history[i] : i \in matching}
            /\ Len(list) = Cardinality(matching)
            /\ \A i, j \in DOMAIN list :
                  i < j => NotLater(list[i].date, list[j].date)
    IN /\ request.op = "history"
           => /\ response.status = 200
              /\ (response.kind = "message") = (matching = {})
              /\ response.kind # "message" => Exact(response.body)
       /\ request.op = "export"
           => /\ response.status = 200
              /\ (response.kind = "message") = (matching = {})
              /\ response.kind # "message"
                     => /\ Exact(response.body.sessions)
                        /\ response.body.total_sessions = Cardinality(matching)
                        /\ response.body.date = request.date

\* C11: session ids are unique: a start-workout call that succeeds returns an
\* id that no earlier start-workout call returned, also when both calls fall
\* in the same clock second.  (A step that changes request serves the request
\* it leaves there.)
C11_SessionIdsUnique ==
    [][(request' # request /\ request'.op = "start" /\ response'.status = 200)
          => response'.body.session_id \notin started]_vars

\* C13: the completions list the guided flow sends with complete-workout
\* holds exactly one WorkoutCompletion per exercise of the session plan, in
\* the plan's order, each with that exercise's id (not one per finished set).
C13_OneCompletionPerExercise ==
    (request.op = "complete" /\ workout_plan # <<>>)
        => /\ Len(request.completion) = Len(workout_plan)
           /\ \A i \in DOMAIN workout_plan :
                  request.completion[i].exercise_id = workout_plan[i].id

\* the number of records of a list that carry an exercise id
SetsRecorded(list, id) ==
    Cardinality({i \in DOMAIN list : list[i].exercise_id = id})

\* C14: the guided flow leaves an exercise (for the next one, or for
\* completion after the last one) only when exactly planned_sets sets of that
\* exercise are on record.
C14_AdvanceAfterPlannedSets ==
    [][(workout_in_progress /\ current_exercise' = current_exercise + 1)
          => LET exercise == workout_plan[current_exercise + 1]
                 recorded == IF workout_in_progress' THEN completed_exercises'
                             ELSE request'.completion
             IN SetsRecorded(recorded, exercise.id) = exercise.planned_sets]_vars

\* C15: while a workout is in progress, current_exercise is an index of the
\* workout plan, also after a complete-workout request that did not return
\* status 200.
C15_CurrentExerciseInPlan ==
    workout_in_progress
        => (0 <= current_exercise /\ current_exercise < Len(workout_plan))

\* a generate-plan request the handler accepts
ValidPlanRequest(req) ==
    /\ req.fitness_level \in {"beginner", "advanced"}
    /\ req.duration_minutes \in {30, 60}
    /\ req.start_date \in {<<2024, 1, 1>>, <<2024, 2, 29>>}

\* C12: for every valid request and every outcome of the random choices,
\* generate-plan returns 5 workout days whose focus areas are Upper Body,
\* Lower Body, Core, Upper Body, Lower Body, each with 3 distinct exercises
\* of the matching table for 30 minutes and min(5, table size) for 60, and 7
\* diet days of 3 meals each (one per meal type, from the level's table)
\* whose total_calories is the sum of the meals' calories.
C12_WeeklyPlan ==
    (request.op = "generate" /\ ValidPlanRequest(request))
        => LET plan == response.body
               level == request.fitness_level
               table(d) == EXERCISE_LIBRARY[level][plan.workout_plan[d].focus_area]
           IN /\ response.status = 200
              /\ Len(plan.workout_plan) = 5
              /\ [d \in 1..5 |-> plan.workout_plan[d].focus_area]
                     = <<"Upper Body", "Lower Body", "Core", "Upper Body", "Lower Body">>
              /\ \A d \in 1..5 :
                     LET chosen == plan.workout_plan[d].exercises
                     IN /\ Len(chosen) = IF request.duration_minutes = 30 THEN 3
                                         ELSE Min(5, Len(table(d)))
                        /\ Cardinality(Range(chosen)) = Len(chosen)
                        /\ Range(chosen) \subseteq Range(table(d))
              /\ Len(plan.diet_plan) = 7
              /\ \A d \in 1..7 :
                     LET day == plan.diet_plan[d]
                     IN /\ Len(day.meals) = 3
                        /\ \A m \in 1..3 :
                               day.meals[m] \in Range(MEAL_LIBRARY[level][meal_types[m]])
                        /\ day.total_calories = Tally(day.meals, "calories")

\* C12 witness: a 60-minute advanced plan was generated in which the random
\* choices show: a workout day lists its exercises in another order than the
\* table, and two diet days differ in total_calories.
C12_Witness ==
    /\ request.op = "generate"
    /\ request.fitness_level = "advanced"
    /\ request.duration_minutes = 60
    /\ response.status = 200
    /\ response.body.workout_plan[3].exercises # EXERCISE_LIBRARY["advanced"]["Core"]
    /\ Len(response.body.workout_plan[3].exercises) = 3
    /\ response.body.diet_plan[1].total_calories # response.body.diet_plan[2].total_calories

====
